---- MODULE Spec2Model ----
(***************************************************************************)
(* Model of the restock prediction pipeline (AI_predictions/AIpredictive.py)*)
(* of WalmartAI.  The script is a straight-line batch program: it reads     *)
(* the transactions and the reference consumption table, aggregates the     *)
(* purchases per (tid, PRODUCT_NAME), estimates the family size per row,    *)
(* predicts the next purchase date and writes predicted_purchases.csv.      *)
(*                                                                         *)
(* Values.  A calendar date is a day number; a missing date (pandas NaT)    *)
(* and Python's None are the empty tuple, a present value v is <<v>>.       *)
(* A float is an exact fraction [num, den] with den > 0 in lowest terms;    *)
(* 0/0 is NaN and n/0 (n # 0) is an infinity, as in IEEE division.          *)
(***************************************************************************)
EXTENDS Integers, Sequences, FiniteSets, TLC

\* ------------------------------------------------------------------ bounds
MaxRecords == 3
MaxDay == 2

\* ------------------------------------------------------------------ values
NaT == <<>>
None == <<>>
\* a RunDate cell whose text is not a date (it is neither a day nor missing)
BadDate == <<0, 0>>
Some(v) == <<v>>
IsNull(x) == x = <<>>

Abs(n) == IF n < 0 THEN -n ELSE n

RECURSIVE GCD(_, _)
GCD(a, b) == IF b = 0 THEN a ELSE GCD(b, a % b)

NaN == [num |-> 0, den |-> 0]
IsNaN(x) == x.num = 0 /\ x.den = 0
Float(n) == [num |-> n, den |-> 1]

\* numerator / denominator as a float, in lowest terms with den > 0
Frac(n, d) ==
    IF d = 0
    THEN [num |-> (IF n > 0 THEN 1 ELSE IF n < 0 THEN -1 ELSE 0), den |-> 0]
    ELSE LET g == GCD(Abs(n), Abs(d))
             s == IF d < 0 THEN -1 ELSE 1
         IN  [num |-> s * (n \div g), den |-> s * (d \div g)]

\* x / n for a float x and an integer n (pandas Series division)
TrueDiv(x, n) == IF IsNaN(x) THEN NaN ELSE Frac(x.num, x.den * n)

\* ------------------------------------------------------------------ inputs
Households == {"H1", "H2"}
Products == {"ProductX", "productx"}
Dates == {NaT} \cup {Some(d) : d \in 0..MaxDay}

\* Python orders strings by code point: "H1" < "H2", "ProductX" < "productx"
\* ('P' is 80, 'p' is 112).
StrRank(s) ==
    CASE s = "H1" -> 1
      [] s = "H2" -> 2
      [] s = "ProductX" -> 1
      [] s = "ProductY" -> 2
      [] s = "productx" -> 3

Transactions == [tid : Households, PRODUCT_NAME : Products, RunDate : Dates]

Buckets == <<"1", "2", "3", "4", "5", "6", "6+">>

RefRow(p, v) == [Product |-> p, vals |-> v]

\* The reference tables the pipeline is run with: no row at all, a row whose
\* intervals shrink with the family size (with equal neighbours, so that ties
\* occur), a table with a second row of the same product and a row of another
\* product first, and a row holding a negative interval.
ConsumptionTables ==
    { <<>>,
      << RefRow("ProductX", <<4, 3, 2, 1, 1, 0, 0>>) >>,
      << RefRow("ProductY", <<1, 1, 1, 1, 1, 1, 1>>),
         RefRow("ProductX", <<5, 4, 3, 3, 2, 2, 1>>),
         RefRow("ProductX", <<0, 0, 0, 0, 0, 0, 0>>) >>,
      << RefRow("ProductX", <<3, 3, 2, 2, 2, 2, -1>>) >> }

SeqsUpTo(S, n) == UNION {[1..k -> S] : k \in 1..n}

\* ------------------------------------------------------------ line 14: sort
\* Order of sort_values(by=["tid", "PRODUCT_NAME", "RunDate"]): lexicographic,
\* missing dates last (na_position='last').
DateLess(a, b) ==
    IF IsNull(a) THEN FALSE ELSE IF IsNull(b) THEN TRUE ELSE a[1] < b[1]

RowLess(a, b) ==
    \/ StrRank(a.tid) < StrRank(b.tid)
    \/ /\ a.tid = b.tid
       /\ \/ StrRank(a.PRODUCT_NAME) < StrRank(b.PRODUCT_NAME)
          \/ /\ a.PRODUCT_NAME = b.PRODUCT_NAME
             /\ DateLess(a.RunDate, b.RunDate)

\* insert r behind every row that is not greater than it (a stable sort)
RECURSIVE Insert(_, _)
Insert(r, s) ==
    IF s = <<>> THEN <<r>>
    ELSE IF RowLess(r, Head(s)) THEN <<r>> \o s
    ELSE <<Head(s)>> \o Insert(r, Tail(s))

\* mutant: the rows without a date are dropped from the frame
RECURSIVE SortValues_dropna(_)
SortValues_dropna(d) ==
    IF d = <<>> THEN <<>>
    ELSE IF IsNull(d[Len(d)].RunDate) THEN SortValues_dropna(SubSeq(d, 1, Len(d) - 1))
    ELSE Insert(d[Len(d)], SortValues_dropna(SubSeq(d, 1, Len(d) - 1)))

RECURSIVE SortValues(_)
SortValues(d) ==
    IF d = <<>> THEN <<>>
    ELSE Insert(d[Len(d)], SortValues(SubSeq(d, 1, Len(d) - 1)))

\* -------------------------------------------------- lines 15-20: aggregation
KeyOf(r) == <<r.tid, r.PRODUCT_NAME>>
KeyLess(j, k) ==
    \/ StrRank(j[1]) < StrRank(k[1])
    \/ j[1] = k[1] /\ StrRank(j[2]) < StrRank(k[2])

\* groupby(['tid', 'PRODUCT_NAME']): the distinct keys in ascending order
RECURSIVE SortedKeys(_)
SortedKeys(K) ==
    IF K = {} THEN <<>>
    ELSE LET k == CHOOSE j \in K : \A i \in K \ {j} : KeyLess(j, i)
         IN  <<k>> \o SortedKeys(K \ {k})

GroupKeys(d) == SortedKeys({KeyOf(d[i]) : i \in DOMAIN d})

\* the RunDate values of the group of key k that are present
GroupDates(d, k) ==
    {d[i].RunDate[1] : i \in {j \in DOMAIN d : KeyOf(d[j]) = k /\ ~IsNull(d[j].RunDate)}}

AggMin(d, k) ==
    LET D == GroupDates(d, k)
    IN  IF D = {} THEN NaT ELSE Some(CHOOSE x \in D : \A y \in D : x <= y)

AggMax(d, k) ==
    LET D == GroupDates(d, k)
    IN  IF D = {} THEN NaT ELSE Some(CHOOSE x \in D : \A y \in D : x >= y)

\* mutant: count the rows of the group, dated or not (a 'size')
AggCount_size(d, k) == Cardinality({i \in DOMAIN d : KeyOf(d[i]) = k})

\* 'count' counts the values of the column that are not null
AggCount(d, k) ==
    Cardinality({i \in DOMAIN d : KeyOf(d[i]) = k /\ ~IsNull(d[i].RunDate)})

\* (max - min).dt.days: NaN where either date is missing
DtDays(hi, lo) == IF IsNull(hi) \/ IsNull(lo) THEN NaN ELSE Float(hi[1] - lo[1])

\* mutant: the NaN is left in place
fillna_dropped(x, v) == x

fillna(x, v) == IF IsNaN(x) THEN v ELSE x

\* mutant: divide by the number of purchases, not of intervals
avg_over_count(hi, lo, count) ==
    fillna(TrueDiv(DtDays(hi, lo), count), Float(0))

\* lines 18-20
avg_days_between_orders(hi, lo, count) ==
    fillna(TrueDiv(DtDays(hi, lo), count - 1), Float(0))

AggRow(d, k) ==
    LET lo == AggMin(d, k)
        hi == AggMax(d, k)
        n == AggCount(d, k)
    IN  [tid |-> k[1], PRODUCT_NAME |-> k[2], min |-> lo, max |-> hi, count |-> n,
         avg_days_between_orders |-> avg_days_between_orders(hi, lo, n)]

Agg(d) == LET K == GroupKeys(d) IN [i \in DOMAIN K |-> AggRow(d, K[i])]

\* ------------------------------------------- lines 23-29: match_family_size
\* mutant: a later key that equals the best so far replaces it
RECURSIVE MinKey_last(_, _, _)
MinKey_last(diffs, i, best) ==
    IF i > Len(diffs) THEN best
    ELSE IF diffs[i] <= diffs[best] THEN MinKey_last(diffs, i + 1, i)
    ELSE MinKey_last(diffs, i + 1, best)

\* min(diffs, key=diffs.get): the first key, in insertion order, whose value
\* no later key undercuts
RECURSIVE MinKey(_, _, _)
MinKey(diffs, i, best) ==
    IF i > Len(diffs) THEN best
    ELSE IF diffs[i] < diffs[best] THEN MinKey(diffs, i + 1, i)
    ELSE MinKey(diffs, i + 1, best)

\* abs(avg_days - v) for the float avg_days and the table value v, scaled by
\* the denominator of avg_days (the same positive factor for every bucket)
Diff(avg_days, v) == Abs(avg_days.num - v * avg_days.den)

\* mutant: the names are compared without regard to case
Lower(name) == IF name = "ProductX" THEN "productx" ELSE name
LookupProduct_nocase(table, product) ==
    SelectSeq(table, LAMBDA r : Lower(r.Product) = Lower(product))

\* line 24: consumption[consumption['Product'] == product]
LookupProduct(table, product) == SelectSeq(table, LAMBDA r : r.Product = product)

MatchIn(table, product, avg_days) ==
    LET row == LookupProduct(table, product)
    IN  IF row = <<>> THEN <<None, None>>
        ELSE LET diffs == [b \in DOMAIN Buckets |-> Diff(avg_days, row[1].vals[b])]
                 best_fit == MinKey(diffs, 2, 1)
             IN  <<Some(Buckets[best_fit]), Some(row[1].vals[best_fit])>>

\* ------------------------------------------------ lines 40-50: the forecast
WithEstimate(row, size, days) ==
    [tid |-> row.tid, PRODUCT_NAME |-> row.PRODUCT_NAME,
     min |-> row.min, max |-> row.max, count |-> row.count,
     avg_days_between_orders |-> row.avg_days_between_orders,
     estimated_family_size |-> size, consumption_days |-> days]

\* mutant: a group without any date gets no last purchase row
LastDates_dropna(d) ==
    LET K == SelectSeq(GroupKeys(d), LAMBDA k : GroupDates(d, k) # {})
    IN  [i \in DOMAIN K |->
            [tid |-> K[i][1], PRODUCT_NAME |-> K[i][2], last_purchase |-> AggMax(d, K[i])]]

\* line 44: grouped['RunDate'].max() with the column renamed to last_purchase
LastDates(d) ==
    LET K == GroupKeys(d)
    IN  [i \in DOMAIN K |->
            [tid |-> K[i][1], PRODUCT_NAME |-> K[i][2], last_purchase |-> AggMax(d, K[i])]]

\* mutant: the join is on 'tid' alone
MatchingRows_tid(l, right) == SelectSeq(right, LAMBDA r : r.tid = l.tid)

\* the rows of right whose key is that of the left row, in order
MatchingRows(l, right) ==
    SelectSeq(right, LAMBDA r : r.tid = l.tid /\ r.PRODUCT_NAME = l.PRODUCT_NAME)

JoinRow(l, r) ==
    [tid |-> l.tid, PRODUCT_NAME |-> l.PRODUCT_NAME,
     min |-> l.min, max |-> l.max, count |-> l.count,
     avg_days_between_orders |-> l.avg_days_between_orders,
     estimated_family_size |-> l.estimated_family_size,
     consumption_days |-> l.consumption_days,
     last_purchase |-> r.last_purchase]

\* line 45: pd.merge(left, right, on=['tid', 'PRODUCT_NAME']), an inner join
RECURSIVE Merge(_, _)
Merge(left, right) ==
    IF left = <<>> THEN <<>>
    ELSE LET m == MatchingRows(Head(left), right)
         IN  [j \in DOMAIN m |-> JoinRow(Head(left), m[j])] \o Merge(Tail(left), right)

\* mutant: the interval is taken in weeks
timedelta_weeks(x) ==
    IF IsNull(x) THEN [raised |-> TRUE, days |-> 0] ELSE [raised |-> FALSE, days |-> 7 * x[1]]

\* datetime.timedelta(days=x): a TypeError when x is None
timedelta(x) ==
    IF IsNull(x) THEN [raised |-> TRUE, days |-> 0] ELSE [raised |-> FALSE, days |-> x[1]]

\* mutant: the lambda without its null guard
ConsumptionDelta_unguarded(x) == timedelta(x)

\* line 46: lambda x: timedelta(days=x) if pd.notnull(x) else timedelta(days=0)
ConsumptionDelta(x) == IF ~IsNull(x) THEN timedelta(x) ELSE timedelta(Some(0))

\* mutant: the interval is not added
AddDays_dropped(date, delta) == date

\* datetime + timedelta; NaT + anything is NaT
AddDays(date, delta) == IF IsNull(date) THEN NaT ELSE Some(date[1] + delta.days)

WithPrediction(row, delta) ==
    [tid |-> row.tid, PRODUCT_NAME |-> row.PRODUCT_NAME,
     min |-> row.min, max |-> row.max, count |-> row.count,
     avg_days_between_orders |-> row.avg_days_between_orders,
     estimated_family_size |-> row.estimated_family_size,
     consumption_days |-> row.consumption_days,
     last_purchase |-> row.last_purchase,
     predicted_next_date |-> AddDays(row.last_purchase, delta)]

\* mutant: a missing consumption_days is written as 0
predicted_restock_filled(row) ==
    [tid |-> row.tid, PRODUCT_NAME |-> row.PRODUCT_NAME,
     estimated_family_size |-> row.estimated_family_size,
     avg_days_between_orders |-> row.avg_days_between_orders,
     consumption_days |-> (IF IsNull(row.consumption_days) THEN Some(0) ELSE row.consumption_days),
     last_purchase |-> row.last_purchase,
     predicted_next_date |-> row.predicted_next_date]

\* line 49: the columns of the output table.  A null cell (None, NaN, NaT) is
\* written as an empty field and stays null for every reader.
predicted_restock(row) ==
    [tid |-> row.tid, PRODUCT_NAME |-> row.PRODUCT_NAME,
     estimated_family_size |-> row.estimated_family_size,
     avg_days_between_orders |-> row.avg_days_between_orders,
     consumption_days |-> row.consumption_days,
     last_purchase |-> row.last_purchase,
     predicted_next_date |-> row.predicted_next_date]

\* The script sorts the frame on the three modelled columns before anything
\* reads it, so a file is taken up to the order of its rows: of the files that
\* hold the same rows, the one listing them from last to first.  A file holds
\* at least one row, and every row carries its tid and its PRODUCT_NAME.
InputFiles ==
    {f \in SeqsUpTo(Transactions, MaxRecords) :
        \A i \in 1..(Len(f) - 1) : ~RowLess(f[i], f[i + 1])}

VARIABLES
    Our_dataset_csv,          \* Input_dataset/Our_dataset.csv: the rows
    consumption_table_csv,    \* Input_dataset/consumption_table.csv: the rows
    predicted_purchases_csv,  \* Output_dataset/predicted_purchases.csv
    pc,                       \* position of the script
    df,                       \* the transactions data frame
    consumption,              \* the reference table data frame
    purchase_patterns,        \* the aggregate, one row per group
    family_sizes,             \* list built by the estimation loop
    consumptions,             \* list built by the estimation loop
    Our_dataset_columns,      \* the columns Our_dataset.csv has
    run,                      \* number of the current run of the script
    first_output,             \* history: the output table the previous run left
    first_input,              \* history: the files the previous run was given
    app_df,                   \* app.py line 26: the dataset of the application,
                              \* None while it is not loaded
    rag_dataset,              \* what the last read of the RAG consumer returned
    df_predictions,           \* restocking.py: the global forecast frame
    last_call                 \* the last restock query, the frame it was answered
                              \* from and what it returned

vars == <<Our_dataset_csv, consumption_table_csv, predicted_purchases_csv, pc,
          df, consumption, purchase_patterns, family_sizes, consumptions,
          Our_dataset_columns, run, first_output, first_input, app_df,
          rag_dataset, df_predictions, last_call>>

\* what the script itself never touches
runVars == <<Our_dataset_columns, run, first_output, first_input, app_df>>
consumerVars == <<rag_dataset, df_predictions, last_call>>

RequiredColumns == {"tid", "PRODUCT_NAME", "RunDate"}
NoCall == [kind |-> "none"]

\* no consumer has run and the script is in its first run
Untouched ==
    /\ run = 1
    /\ first_output = <<>>
    /\ first_input = <<>>
    /\ app_df = None
    /\ rag_dataset = None
    /\ df_predictions = None
    /\ last_call = NoCall

Init ==
    /\ Our_dataset_csv \in InputFiles
    /\ consumption_table_csv \in ConsumptionTables
    /\ predicted_purchases_csv = <<>>
    /\ pc = "read_csv"
    /\ df = <<>>
    /\ consumption = <<>>
    /\ purchase_patterns = <<>>
    /\ family_sizes = <<>>
    /\ consumptions = <<>>
    /\ Our_dataset_columns = RequiredColumns
    /\ Untouched

\* lines 10-11: load both datasets; parse_dates=["RunDate"] raises a ValueError
\* when the file has no RunDate column
ReadCsv ==
    /\ pc = "read_csv"
    /\ IF "RunDate" \in Our_dataset_columns
       THEN /\ df' = Our_dataset_csv
            /\ consumption' = consumption_table_csv
            /\ pc' = "sort_values"
       ELSE /\ pc' = "error"
            /\ UNCHANGED <<df, consumption>>
    /\ UNCHANGED <<Our_dataset_csv, consumption_table_csv, predicted_purchases_csv,
                   purchase_patterns, family_sizes, consumptions>>
    /\ UNCHANGED <<runVars, consumerVars>>

\* line 14: sort the frame in place; a KeyError when a sort column is missing
SortStep ==
    /\ pc = "sort_values"
    /\ IF {"tid", "PRODUCT_NAME"} \subseteq Our_dataset_columns
       THEN df' = SortValues(df) /\ pc' = "agg"
       ELSE pc' = "error" /\ UNCHANGED df
    /\ UNCHANGED <<Our_dataset_csv, consumption_table_csv, predicted_purchases_csv,
                   consumption, purchase_patterns, family_sizes, consumptions>>
    /\ UNCHANGED <<runVars, consumerVars>>

\* mutant: a cell that is not a date is read as NaT (errors='coerce')
text_dates_coerced(frame) == FALSE

\* line 10: parse_dates leaves the whole RunDate column as text when one of its
\* cells is not a date
text_dates(frame) == \E i \in DOMAIN frame : frame[i].RunDate = BadDate

\* lines 15-20: group, aggregate and derive the average interval; on a RunDate
\* column of text the subtraction at line 19 raises a TypeError
Aggregate ==
    /\ pc = "agg"
    /\ IF text_dates(df)
       THEN pc' = "error" /\ UNCHANGED purchase_patterns
       ELSE purchase_patterns' = Agg(df) /\ pc' = "estimate"
    /\ UNCHANGED <<Our_dataset_csv, consumption_table_csv, predicted_purchases_csv,
                   df, consumption, family_sizes, consumptions>>
    /\ UNCHANGED <<runVars, consumerVars>>

\* mutant: a reference row is used up by each call
match_family_size_consuming(product, avg_days) ==
    MatchIn(SubSeq(consumption, Len(family_sizes) + 1, Len(consumption)), product, avg_days)

\* lines 23-29, on the global table
match_family_size(product, avg_days) == MatchIn(consumption, product, avg_days)

\* lines 35-38: one iteration of the estimation loop
EstimateRow ==
    /\ pc = "estimate"
    /\ Len(family_sizes) < Len(purchase_patterns)
    /\ LET row == purchase_patterns[Len(family_sizes) + 1]
           res == match_family_size(row.PRODUCT_NAME, row.avg_days_between_orders)
       IN  /\ family_sizes' = Append(family_sizes, res[1])
           /\ consumptions' = Append(consumptions, res[2])
    /\ UNCHANGED <<Our_dataset_csv, consumption_table_csv, predicted_purchases_csv,
                   pc, df, consumption, purchase_patterns>>
    /\ UNCHANGED <<runVars, consumerVars>>

\* the loop is over: lines 40-41 attach the two lists as columns
AssignColumns ==
    /\ pc = "estimate"
    /\ Len(family_sizes) = Len(purchase_patterns)
    /\ purchase_patterns' =
           [i \in DOMAIN purchase_patterns |->
               WithEstimate(purchase_patterns[i], family_sizes[i], consumptions[i])]
    /\ pc' = "merge"
    /\ UNCHANGED <<Our_dataset_csv, consumption_table_csv, predicted_purchases_csv,
                   df, consumption, family_sizes, consumptions>>
    /\ UNCHANGED <<runVars, consumerVars>>

\* lines 44-46: join the last purchase dates and add the consumption interval;
\* an exception raised by the lambda ends the script before the table is written
Forecast ==
    /\ pc = "merge"
    /\ LET merged == Merge(purchase_patterns, LastDates(df))
           deltas == [i \in DOMAIN merged |-> ConsumptionDelta(merged[i].consumption_days)]
       IN  IF \E i \in DOMAIN merged : deltas[i].raised
           THEN /\ pc' = "error"
                /\ purchase_patterns' = merged
           ELSE /\ pc' = "to_csv"
                /\ purchase_patterns' =
                       [i \in DOMAIN merged |-> WithPrediction(merged[i], deltas[i])]
    /\ UNCHANGED <<Our_dataset_csv, consumption_table_csv, predicted_purchases_csv,
                   df, consumption, family_sizes, consumptions>>
    /\ UNCHANGED <<runVars, consumerVars>>

\* mutant: the rows of the previous run are kept for the pairs this run has
\* no row for (an incremental merge)
OutputTable_merged ==
    [i \in DOMAIN purchase_patterns |-> predicted_restock(purchase_patterns[i])]
    \o SelectSeq(first_output,
                 LAMBDA r : \A i \in DOMAIN purchase_patterns :
                               KeyOf(purchase_patterns[i]) # KeyOf(r))

\* mutant: the rows are added to those the previous run wrote
OutputTable_appended ==
    first_output \o [i \in DOMAIN purchase_patterns |-> predicted_restock(purchase_patterns[i])]

\* line 49: the table that line 50 writes
OutputTable == [i \in DOMAIN purchase_patterns |-> predicted_restock(purchase_patterns[i])]

\* line 50, first half: to_csv opens the destination itself for writing, which
\* empties it
ToCsv ==
    /\ pc = "to_csv"
    /\ predicted_purchases_csv' = <<>>
    /\ pc' = (IF OutputTable = <<>> THEN "done" ELSE "writing")
    /\ UNCHANGED <<Our_dataset_csv, consumption_table_csv, df, consumption,
                   purchase_patterns, family_sizes, consumptions>>
    /\ UNCHANGED <<runVars, consumerVars>>

\* line 50, second half: the rows reach the file in order, some at a time (the
\* buffer is flushed at its own pace); the file is closed after the last one
WriteRows ==
    /\ pc = "writing"
    /\ \E n \in (Len(predicted_purchases_csv) + 1)..Len(OutputTable) :
          /\ predicted_purchases_csv' = SubSeq(OutputTable, 1, n)
          /\ pc' = (IF n = Len(OutputTable) THEN "done" ELSE "writing")
    /\ UNCHANGED <<Our_dataset_csv, consumption_table_csv, df, consumption,
                   purchase_patterns, family_sizes, consumptions>>
    /\ UNCHANGED <<runVars, consumerVars>>

Next ==
    \/ ReadCsv
    \/ SortStep
    \/ Aggregate
    \/ EstimateRow
    \/ AssignColumns
    \/ Forecast
    \/ ToCsv
    \/ WriteRows

Spec == Init /\ [][Next]_vars

\* ------------------------------------------------- the estimator on its own
\* The script at the entry of the estimation loop (line 35) for an input of one
\* (tid, PRODUCT_NAME) group whose purchases span 0..span days, with every
\* reference row over RefValues: the frame and the aggregate are those the
\* script computes from that input.
RefValues == {0, 1, 2}
RefRows == {RefRow("ProductX", v) : v \in [DOMAIN Buckets -> RefValues]}

GroupFile(p, n, span) ==
    [i \in 1..n |->
        [tid |-> "H1", PRODUCT_NAME |-> p,
         RunDate |-> Some(IF i = 1 THEN span ELSE 0)]]

InitEstimator ==
    \E p \in Products, n \in 1..MaxRecords, span \in 0..MaxDay, ref \in RefRows :
        /\ n = 1 => span = 0
        /\ Our_dataset_csv = GroupFile(p, n, span)
        /\ consumption_table_csv = <<ref>>
        /\ predicted_purchases_csv = <<>>
        /\ pc = "estimate"
        /\ df = SortValues(Our_dataset_csv)
        /\ consumption = consumption_table_csv
        /\ purchase_patterns = Agg(df)
        /\ family_sizes = <<>>
        /\ consumptions = <<>>
        /\ Our_dataset_columns = RequiredColumns
        /\ Untouched

NextEstimator == EstimateRow \/ AssignColumns

SpecEstimator == InitEstimator /\ [][NextEstimator]_vars

\* ------------------------------------------------ the script from end to end
\* The state in which a run over file f and reference table t ends (line 51).
Estimates(pp, t) ==
    [i \in DOMAIN pp |-> MatchIn(t, pp[i].PRODUCT_NAME, pp[i].avg_days_between_orders)]

FinalPatterns(f, t) ==
    LET d == SortValues(f)
        pp == Agg(d)
        est == Estimates(pp, t)
        merged == Merge([i \in DOMAIN pp |-> WithEstimate(pp[i], est[i][1], est[i][2])],
                        LastDates(d))
    IN  [i \in DOMAIN merged |->
            WithPrediction(merged[i], ConsumptionDelta(merged[i].consumption_days))]

FinalTable(f, t) ==
    LET pp == FinalPatterns(f, t) IN [i \in DOMAIN pp |-> predicted_restock(pp[i])]

RunIsOver(f, t) ==
    /\ Our_dataset_csv = f
    /\ Our_dataset_columns = RequiredColumns
    /\ consumption_table_csv = t
    /\ pc = "done"
    /\ df = SortValues(f)
    /\ consumption = t
    /\ purchase_patterns = FinalPatterns(f, t)
    /\ family_sizes = [i \in DOMAIN Agg(df) |-> Estimates(Agg(df), t)[i][1]]
    /\ consumptions = [i \in DOMAIN Agg(df) |-> Estimates(Agg(df), t)[i][2]]
    /\ predicted_purchases_csv = FinalTable(f, t)

\* ------------------------------------ restocking.py: the Restock Query Service
\* Calendar, from December 2021 to February 2022.  Day 0 is 2021-12-30, so
\* that the days of the model run over the end of a month and of a year.  A
\* datetime is counted in half days: 2 * d is day d at 00:00 and 2 * d + 1 is
\* day d at 12:00.  A Timestamp read from the table is a day at 00:00.
YearOf(d) == IF d <= 1 THEN 2021 ELSE 2022
MonthOf(d) == IF d <= 1 THEN 12 ELSE IF d <= 32 THEN 1 ELSE 2
DayOfMonth(d) == IF d <= 1 THEN d + 30 ELSE IF d <= 32 THEN d - 1 ELSE d - 32

\* mutant: the text is written day first ('%d-%m-%Y')
strftime_dmy(d) ==
    << DayOfMonth(d) \div 10, DayOfMonth(d) % 10,
       MonthOf(d) \div 10, MonthOf(d) % 10,
       YearOf(d) \div 1000, (YearOf(d) \div 100) % 10, (YearOf(d) \div 10) % 10,
       YearOf(d) % 10 >>

\* line 93: strftime('%Y-%m-%d'), the digits of the text (the dashes stand at
\* the same places in every text)
strftime(d) ==
    << YearOf(d) \div 1000, (YearOf(d) \div 100) % 10, (YearOf(d) \div 10) % 10,
       YearOf(d) % 10,
       MonthOf(d) \div 10, MonthOf(d) % 10,
       DayOfMonth(d) \div 10, DayOfMonth(d) % 10 >>

\* Python's < on two texts of the same length
StrLess(a, b) ==
    \E i \in DOMAIN a : a[i] < b[i] /\ \A j \in 1..(i - 1) : a[j] = b[j]

\* the arguments a caller may pass as user_id
Str(t) == [type |-> "str", text |-> t]
NoneArg == [type |-> "NoneType", text |-> ""]
IntArg == [type |-> "int", text |-> "7"]
UserArgs ==
    {Str("H1"), Str("H2"), Str("H3"), Str(" H1 "), Str(""), Str("   "), NoneArg, IntArg}
\* a reference_date that is not a datetime (a number, say)
NotADatetime == <<0, 0>>

\* line 63: not user_id or not isinstance(user_id, str)
InvalidUser(u) == u.type # "str" \/ u.text = ""

\* line 67: str.strip
strip(t) == CASE t = " H1 " -> "H1" [] t = "   " -> "" [] OTHER -> t

\* mutant: rows of every household are kept
UserData_all(frame, uid) == frame

\* line 72: df_predictions[df_predictions['tid'] == user_id]
UserData(frame, uid) == SelectSeq(frame, LAMBDA r : r.tid = uid)

\* mutant: the comparison is strict
IsDue_strict(predicted, ref) == predicted # NaT /\ 2 * predicted[1] < ref

\* line 83: predicted_next_date <= reference_date; NaT compares false
IsDue(predicted, ref) == predicted # NaT /\ 2 * predicted[1] <= ref

\* mutant: the difference is taken the other way round
DaysOverdue_reversed(predicted, ref) == (2 * predicted[1] - ref) \div 2

\* line 94: (reference_date - predicted_next_date).days, the whole days
DaysOverdue(predicted, ref) == (ref - 2 * predicted[1]) \div 2

\* lines 91-95
RestockItem(row, ref) ==
    [product_name |-> row.PRODUCT_NAME,
     predicted_date |-> strftime(row.predicted_next_date[1]),
     days_overdue |-> DaysOverdue(row.predicted_next_date, ref)]

\* line 98: list.sort(key=predicted_date), a stable sort
RECURSIVE InsertItem(_, _)
InsertItem(x, s) ==
    IF s = <<>> THEN <<x>>
    ELSE IF StrLess(x.predicted_date, Head(s).predicted_date) THEN <<x>> \o s
    ELSE <<Head(s)>> \o InsertItem(x, Tail(s))

RECURSIVE SortItems(_)
SortItems(s) ==
    IF s = <<>> THEN <<>>
    ELSE InsertItem(s[Len(s)], SortItems(SubSeq(s, 1, Len(s) - 1)))

\* mutant: the file is read again by every query
global_df_predictions_reread ==
    IF predicted_purchases_csv = <<>> THEN None ELSE Some(predicted_purchases_csv)

\* line 55: global df_predictions, the frame a query works on
global_df_predictions == df_predictions

\* how a call ends: it returns a value or an exception leaves it
Return(v) == [raised |-> FALSE, value |-> v]
Raise == [raised |-> TRUE, value |-> <<>>]

\* lines 62-100, the body of the try, today being what datetime.today()
\* returns; the comparison of line 83 raises a TypeError when reference_date
\* is not a datetime
restock_items(user_id, reference_date, today) ==
    IF InvalidUser(user_id) THEN Return(<<>>)
    ELSE IF strip(user_id.text) = "" THEN Return(<<>>)
    ELSE LET user_data == UserData(global_df_predictions[1], strip(user_id.text))
             ref == IF reference_date = None THEN today ELSE reference_date[1]
             due_items == SelectSeq(user_data, LAMBDA r : IsDue(r.predicted_next_date, ref))
         IN  IF user_data = <<>> THEN Return(<<>>)
             ELSE IF reference_date = NotADatetime THEN Raise
             ELSE IF due_items = <<>> THEN Return(<<>>)
             ELSE Return(SortItems([i \in DOMAIN due_items |->
                                       RestockItem(due_items[i], ref)]))

\* mutant: the exception is passed on to the caller
except_Exception_reraised(outcome) == outcome

\* lines 102-104: except Exception: return []
except_Exception(outcome) == IF outcome.raised THEN Return(<<>>) ELSE outcome

\* lines 44-104: get_restock_list
get_restock_list(user_id, reference_date, today) ==
    IF global_df_predictions = None THEN Return(<<>>)
    ELSE except_Exception(restock_items(user_id, reference_date, today))

\* lines 106-124: format_restock_response, the reply as its lines
format_restock_response(items) ==
    IF items = <<>> THEN <<[line |-> "no restock needed"]>>
    ELSE [i \in DOMAIN items |->
            IF items[i].days_overdue > 0
            THEN [line |-> "due since", product_name |-> items[i].product_name,
                  predicted_date |-> items[i].predicted_date,
                  days_overdue |-> items[i].days_overdue]
            ELSE [line |-> "due on", product_name |-> items[i].product_name,
                  predicted_date |-> items[i].predicted_date]]
         \o <<[line |-> "total", items |-> Len(items)]>>

\* lines 126-133: check_restock_status, with its own except
check_restock_status(user_id, today) ==
    LET outcome == get_restock_list(user_id, None, today)
    IN  IF outcome.raised THEN <<[line |-> "error"]>>
        ELSE format_restock_response(outcome.value)

\* the datetimes a caller passes and the clock shows, in half days
DateTimes == 0..(2 * MaxDay + 1)

\* What pd.read_csv makes of the output file as it is now.  A file that is
\* missing or has no byte yet gives no frame (FileNotFoundError,
\* EmptyDataError); the file holds no row only before the first run and while
\* line 50 of a run has opened it and written the header at most.
read_predicted_purchases ==
    IF predicted_purchases_csv # <<>> THEN {Some(predicted_purchases_csv)}
    ELSE IF pc = "writing" THEN {None, Some(<<>>)}
    ELSE {None}

\* lines 13-42, called once when the application starts (app.py line 23); when
\* the read fails the global stays None
InitializeRestocking ==
    /\ df_predictions = None
    /\ \E frame \in read_predicted_purchases : df_predictions' = frame
    /\ UNCHANGED <<Our_dataset_csv, consumption_table_csv, predicted_purchases_csv, pc,
                   df, consumption, purchase_patterns, family_sizes, consumptions,
                   runVars, rag_dataset, last_call>>

\* A query changes nothing but the record of the last query, so a behaviour
\* follows one query (and, for check_restock_status, its repetition later on).
\* a caller of get_restock_list that supplies the reference date
GetRestockList ==
    /\ last_call = NoCall
    /\ \E u \in UserArgs, reference_date \in {Some(t) : t \in DateTimes} \cup {NotADatetime} :
          LET outcome == get_restock_list(u, reference_date, 0)
          IN  last_call' = [kind |-> "get_restock_list", user_id |-> u,
                            reference_date |-> reference_date, frame |-> df_predictions,
                            raised |-> outcome.raised, result |-> outcome.value]
    /\ UNCHANGED <<Our_dataset_csv, consumption_table_csv, predicted_purchases_csv, pc,
                   df, consumption, purchase_patterns, family_sizes, consumptions,
                   runVars, rag_dataset, df_predictions>>

\* lines 126-133: check_restock_status, which passes no reference date; the
\* clock shows any time
CheckRestockStatus ==
    /\ last_call = NoCall
    /\ \E u \in UserArgs, today \in DateTimes :
          last_call' = [kind |-> "check_restock_status", user_id |-> u,
                        reference_date |-> None, frame |-> df_predictions,
                        result |-> check_restock_status(u, today)]
    /\ UNCHANGED <<Our_dataset_csv, consumption_table_csv, predicted_purchases_csv, pc,
                   df, consumption, purchase_patterns, family_sizes, consumptions,
                   runVars, rag_dataset, df_predictions>>

\* the same user asks again, at whatever time the clock then shows
RepeatCheckRestockStatus ==
    /\ last_call.kind = "check_restock_status"
    /\ \E today \in DateTimes :
          LET reply == check_restock_status(last_call.user_id, today)
          IN  last_call' = [kind |-> "check_restock_status again",
                            user_id |-> last_call.user_id,
                            reference_date |-> None, frame |-> df_predictions,
                            result |-> reply,
                            same_reply |-> (reply = last_call.result)]
    /\ UNCHANGED <<Our_dataset_csv, consumption_table_csv, predicted_purchases_csv, pc,
                   df, consumption, purchase_patterns, family_sizes, consumptions,
                   runVars, rag_dataset, df_predictions>>

\* The service over the table of a finished run: the input has at most one
\* purchase per (tid, PRODUCT_NAME) and the reference table has one row.
ServiceFiles ==
    {f \in InputFiles : \A i, j \in DOMAIN f : KeyOf(f[i]) = KeyOf(f[j]) => i = j}
ServiceTables == {t \in ConsumptionTables : Len(t) = 1}

InitService ==
    /\ \E f \in ServiceFiles, t \in ServiceTables : RunIsOver(f, t)
    /\ Untouched

NextService ==
    \/ InitializeRestocking
    \/ GetRestockList
    \/ CheckRestockStatus
    \/ RepeatCheckRestockStatus

SpecService == InitService /\ [][NextService]_vars

\* ------------------------------------- runs of the script and a reader of its
\* output.  The script is run, and run once more when a run is over, over the
\* same files or over a transactions file that has gained or lost rows, while
\* the chatbot reads predicted_purchases.csv whenever it is asked to.

\* RAG.py line 18 reads the file without parse_dates: the two date columns
\* come back as the text to_csv wrote, an empty cell as NaN
DateText(d) == IF IsNull(d) THEN None ELSE Some(strftime(d[1]))
AsRead(table) ==
    [i \in DOMAIN table |->
        [table[i] EXCEPT !.last_purchase = DateText(@),
                         !.predicted_next_date = DateText(@)]]

\* RAG.py lines 10-26, frame being what pd.read_csv made of the file
get_predicted_purchases_dataset(frame) ==
    IF frame = None THEN None ELSE Some(AsRead(frame[1]))

\* RAG.py lines 10-26: every call reads the file again
GetPredictedPurchasesDataset ==
    /\ \E frame \in read_predicted_purchases :
          rag_dataset' = Some(get_predicted_purchases_dataset(frame))
    /\ UNCHANGED <<Our_dataset_csv, consumption_table_csv, predicted_purchases_csv, pc,
                   df, consumption, purchase_patterns, family_sizes, consumptions,
                   runVars, df_predictions, last_call>>

\* the transactions files of the runs: one household, dated, undated and
\* unparseable cells
RunTransactions == [tid : {"H1"}, PRODUCT_NAME : Products, RunDate : {NaT, Some(0), BadDate}]
RunFiles ==
    {f \in SeqsUpTo(RunTransactions, MaxRecords) :
        \A i \in 1..(Len(f) - 1) : ~RowLess(f[i], f[i + 1])}
\* the files a second run may find in place of the first one's
LaterFiles ==
    { << [tid |-> "H1", PRODUCT_NAME |-> "ProductX", RunDate |-> Some(0)] >>,
      << [tid |-> "H1", PRODUCT_NAME |-> "productx", RunDate |-> BadDate],
         [tid |-> "H1", PRODUCT_NAME |-> "ProductX", RunDate |-> Some(0)] >> }
ColumnSets == {RequiredColumns} \cup {RequiredColumns \ {c} : c \in RequiredColumns}

\* the script is started again (a new process: nothing is kept in memory)
Rerun ==
    /\ pc \in {"done", "error"}
    /\ run = 1
    /\ run' = 2
    /\ first_output' = predicted_purchases_csv
    /\ first_input' = <<Our_dataset_csv, Our_dataset_columns, consumption_table_csv>>
    /\ Our_dataset_csv' \in {Our_dataset_csv} \cup LaterFiles
    /\ pc' = "read_csv"
    /\ df' = <<>>
    /\ consumption' = <<>>
    /\ purchase_patterns' = <<>>
    /\ family_sizes' = <<>>
    /\ consumptions' = <<>>
    /\ UNCHANGED <<consumption_table_csv, predicted_purchases_csv, Our_dataset_columns,
                   app_df, consumerVars>>

InitRuns ==
    /\ Our_dataset_csv \in RunFiles
    /\ Our_dataset_columns \in ColumnSets
    /\ consumption_table_csv \in ServiceTables
    /\ predicted_purchases_csv = <<>>
    /\ pc = "read_csv"
    /\ df = <<>>
    /\ consumption = <<>>
    /\ purchase_patterns = <<>>
    /\ family_sizes = <<>>
    /\ consumptions = <<>>
    /\ Untouched

NextRuns ==
    \/ Next
    \/ Rerun
    \/ GetPredictedPurchasesDataset

SpecRuns == InitRuns /\ [][NextRuns]_vars

\* ------------------------------------------ RAG.py: the analyses of the chatbot
\* str.lower on the product names of the model
str_lower(s) == IF s = "ProductX" THEN "productx" ELSE s

\* line 111: PRODUCT_NAME.str.contains(product, case=False); the names of the
\* model have one length, so one contains the other when they are the same
str_contains(name, product) == str_lower(name) = str_lower(product)

\* x < n for a float x and an integer n; a NaN is less than nothing
FloatLess(x, n) == ~IsNaN(x) /\ x.num < n * x.den

\* lines 101-137, dataset being what get_predicted_purchases_dataset returned
get_user_product_data_from_predictions(dataset, user_id, product) ==
    IF dataset = None THEN [error |-> TRUE, found |-> FALSE]
    ELSE LET user_product_data ==
                 SelectSeq(dataset[1], LAMBDA r : r.tid = user_id
                                                  /\ str_contains(r.PRODUCT_NAME, product))
         IN  IF user_product_data = <<>> THEN [error |-> FALSE, found |-> FALSE]
             ELSE [error |-> FALSE, found |-> TRUE, record |-> user_product_data[1]]

\* lines 152-163: the level read off the average interval
consumption_level(avg_days) ==
    IF FloatLess(avg_days, 1) THEN "High"
    ELSE IF FloatLess(avg_days, 7) THEN "Moderate to High"
    ELSE IF FloatLess(avg_days, 30) THEN "Moderate"
    ELSE "Low"

\* lines 152-163 and 506-513: the frequency read off the average interval
frequency(avg_days) ==
    IF FloatLess(avg_days, 1) THEN "Very frequent"
    ELSE IF FloatLess(avg_days, 7) THEN "Weekly"
    ELSE IF FloatLess(avg_days, 30) THEN "Monthly"
    ELSE "Rarely"

\* lines 139-176: the answer built from the forecast table; without a record
\* of the product the function turns to the transactions dataset (lines 178 on)
calculate_product_usage(dataset, user_id, product) ==
    LET prediction_data == get_user_product_data_from_predictions(dataset, user_id, product)
    IN  IF prediction_data.found
        THEN [source |-> "predicted_purchases.csv",
              product |-> prediction_data.record.PRODUCT_NAME,
              avg_days_between_orders |-> prediction_data.record.avg_days_between_orders,
              consumption_days |-> prediction_data.record.consumption_days,
              frequency |-> frequency(prediction_data.record.avg_days_between_orders),
              consumption_level |->
                  consumption_level(prediction_data.record.avg_days_between_orders)]
        ELSE [source |-> "Our_dataset.csv"]

\* line 278: sort_values('avg_days_between_orders'), ascending, NaN last
AvgLess(a, b) ==
    /\ ~IsNaN(a.avg_days_between_orders)
    /\ \/ IsNaN(b.avg_days_between_orders)
       \/ a.avg_days_between_orders.num * b.avg_days_between_orders.den
             < b.avg_days_between_orders.num * a.avg_days_between_orders.den

RECURSIVE InsertByAvg(_, _)
InsertByAvg(r, s) ==
    IF s = <<>> THEN <<r>>
    ELSE IF AvgLess(r, Head(s)) THEN <<r>> \o s
    ELSE <<Head(s)>> \o InsertByAvg(r, Tail(s))

RECURSIVE SortByAvg(_)
SortByAvg(s) ==
    IF s = <<>> THEN <<>>
    ELSE InsertByAvg(s[Len(s)], SortByAvg(SubSeq(s, 1, Len(s) - 1)))

\* lines 266-293: the products of the user, the most frequent first; without a
\* record of the user the function turns to the transactions dataset
get_most_purchased_products(dataset, user_id) ==
    LET user_predictions ==
            IF dataset = None THEN <<>>
            ELSE SelectSeq(dataset[1], LAMBDA r : r.tid = user_id)
        user_products == SortByAvg(user_predictions)
    IN  IF user_predictions = <<>> THEN [source |-> "Our_dataset.csv"]
        ELSE [source |-> "predicted_purchases.csv",
              products |-> [i \in DOMAIN user_products |->
                               [product |-> user_products[i].PRODUCT_NAME,
                                avg_days_between_orders |->
                                    user_products[i].avg_days_between_orders,
                                consumption_days |-> user_products[i].consumption_days]]]

\* the users and the products the analyses are asked about
RagUsers == {"H1", "H2", "H3"}
RagProducts == {"ProductX", "productx", "ProductY"}

\* rag_product_analysis, lines 434-482: "am I having too much <product>"
AnalyseUsage ==
    /\ last_call = NoCall
    /\ \E u \in RagUsers, p \in RagProducts, frame \in read_predicted_purchases :
          /\ rag_dataset' = Some(get_predicted_purchases_dataset(frame))
          /\ last_call' = [kind |-> "calculate_product_usage", user_id |-> u,
                           product |-> p,
                           result |-> calculate_product_usage(
                                          get_predicted_purchases_dataset(frame), u, p)]
    /\ UNCHANGED <<Our_dataset_csv, consumption_table_csv, predicted_purchases_csv, pc,
                   df, consumption, purchase_patterns, family_sizes, consumptions,
                   runVars, df_predictions>>

\* rag_product_analysis, lines 485-519: "what have I bought the most"; the
\* reply gives each product with the frequency of lines 506-513
AnalyseTopPurchases ==
    /\ last_call = NoCall
    /\ \E u \in RagUsers, frame \in read_predicted_purchases :
          LET purchase_data ==
                  get_most_purchased_products(get_predicted_purchases_dataset(frame), u)
          IN  /\ rag_dataset' = Some(get_predicted_purchases_dataset(frame))
              /\ last_call' =
                     [kind |-> "get_most_purchased_products", user_id |-> u,
                      result |-> purchase_data,
                      reply |->
                          IF purchase_data.source = "predicted_purchases.csv"
                          THEN [i \in DOMAIN purchase_data.products |->
                                   [product |-> purchase_data.products[i].product,
                                    frequency |-> frequency(
                                        purchase_data.products[i].avg_days_between_orders)]]
                          ELSE <<>>]
    /\ UNCHANGED <<Our_dataset_csv, consumption_table_csv, predicted_purchases_csv, pc,
                   df, consumption, purchase_patterns, family_sizes, consumptions,
                   runVars, df_predictions>>

\* The analyses over the table of a finished run over the purchases of H1.
RagFiles == {f \in InputFiles : \A i \in DOMAIN f : f[i].tid = "H1"}

InitRag ==
    /\ \E f \in RagFiles, t \in ServiceTables : RunIsOver(f, t)
    /\ Untouched

NextRag ==
    \/ AnalyseUsage
    \/ AnalyseTopPurchases

SpecRag == InitRag /\ [][NextRag]_vars

\* ------------------------------------------------- a household from end to end
\* H1 buys ProductX on 2022-01-01, 2022-01-11 and 2022-01-21 (days 2, 12 and
\* 22); the reference row of ProductX gives 10 days to the family of 2 and
\* something else to the family of 1.  The script is run, the service loads
\* the table and is asked for the restock list around 2022-02-01 (day 33).
ScenarioFile ==
    << [tid |-> "H1", PRODUCT_NAME |-> "ProductX", RunDate |-> Some(12)],
       [tid |-> "H1", PRODUCT_NAME |-> "ProductX", RunDate |-> Some(2)],
       [tid |-> "H1", PRODUCT_NAME |-> "ProductX", RunDate |-> Some(22)] >>
ScenarioTables ==
    { << RefRow("ProductX", v) >> :
        v \in {w \in [DOMAIN Buckets -> {0, 10, 30}] :
                  w[1] # 10 /\ w[2] = 10 /\ \A b \in DOMAIN Buckets : b > 2 => w[b] # 0} }
ScenarioDateTimes == {63, 64, 66, 67}

\* get_restock_list called for a household at one of these datetimes
ScenarioQuery ==
    /\ last_call = NoCall
    /\ \E u \in {Str("H1"), Str("H2")}, ref \in ScenarioDateTimes :
          LET outcome == get_restock_list(u, Some(ref), 0)
          IN  last_call' = [kind |-> "get_restock_list", user_id |-> u,
                            reference_date |-> Some(ref), frame |-> df_predictions,
                            raised |-> outcome.raised, result |-> outcome.value]
    /\ UNCHANGED <<Our_dataset_csv, consumption_table_csv, predicted_purchases_csv, pc,
                   df, consumption, purchase_patterns, family_sizes, consumptions,
                   runVars, rag_dataset, df_predictions>>

InitScenario ==
    /\ Our_dataset_csv = ScenarioFile
    /\ Our_dataset_columns = RequiredColumns
    /\ consumption_table_csv \in ScenarioTables
    /\ predicted_purchases_csv = <<>>
    /\ pc = "read_csv"
    /\ df = <<>>
    /\ consumption = <<>>
    /\ purchase_patterns = <<>>
    /\ family_sizes = <<>>
    /\ consumptions = <<>>
    /\ Untouched

NextScenario ==
    \/ Next
    \/ InitializeRestocking
    \/ ScenarioQuery

SpecScenario == InitScenario /\ [][NextScenario]_vars

\* --------------------------------- the two consumers while the script is rerun
\* The application has started over the table of a finished run (or starts
\* later); the script is run again; H1 asks the service for the restock list
\* and the chatbot reads the table.
AskRestockList ==
    /\ last_call = NoCall
    /\ \E ref \in DateTimes :
          LET outcome == get_restock_list(Str("H1"), Some(ref), 0)
          IN  last_call' = [kind |-> "get_restock_list", user_id |-> Str("H1"),
                            reference_date |-> Some(ref), frame |-> df_predictions,
                            raised |-> outcome.raised, result |-> outcome.value]
    /\ UNCHANGED <<Our_dataset_csv, consumption_table_csv, predicted_purchases_csv, pc,
                   df, consumption, purchase_patterns, family_sizes, consumptions,
                   runVars, rag_dataset, df_predictions>>

ConsumerFiles == {f \in RagFiles : Len(f) = 1}

InitConsumers ==
    /\ \E f \in ConsumerFiles, t \in ServiceTables : RunIsOver(f, t)
    /\ Untouched

NextConsumers ==
    \/ Next
    \/ Rerun
    \/ InitializeRestocking
    \/ AskRestockList
    \/ GetPredictedPurchasesDataset

SpecConsumers == InitConsumers /\ [][NextConsumers]_vars

\* ------------------------------------------------- app.py: the /chat handler
\* A query is a text made of the words below, one blank between two of them;
\* the empty word makes a text that begins or ends with a blank, or is blank.
Words ==
    {"restock", "Restocking", "walmart", "WALMART", "suggest", "purchased", "too much",
     "cola", ""}
Queries == {<<>>} \cup [1..1 -> Words] \cup [1..2 -> Words]

\* recommendation.py lines 20 and 29, RAG.py lines 656-663
restock_keywords ==
    {"restock", "restocking", "check if to be restocked", "need to restock", "restock status"}
suggest_keywords == {"suggest", "recommend", "brand", "best", "recommendation"}
rag_keywords ==
    {"too much", "bought the most", "purchased the most", "number of", "how much",
     "consumed", "purchased", "quantity", "amount", "frequency", "excessive",
     "overconsumption", "consumption", "usage", "intake", "health", "diet", "lifestyle",
     "top purchases", "most bought", "frequently bought", "regular purchases",
     "consumption pattern", "buying habit", "purchase history", "shopping pattern"}

\* the keywords of the three lists, and 'walmart', that stand in a word once
\* it is put in lower case; no keyword runs over two words of the model
KeywordsIn(word) ==
    CASE word = "restock" -> {"restock"}
      [] word = "Restocking" -> {"restock", "restocking"}
      [] word \in {"walmart", "WALMART"} -> {"walmart"}
      [] word = "suggest" -> {"suggest"}
      [] word = "purchased" -> {"purchased"}
      [] word = "too much" -> {"too much"}
      [] OTHER -> {}

\* str.strip on a query: the blanks at both ends go (with those in between,
\* which no test looks at)
strip_query(query) == SelectSeq(query, LAMBDA w : w # "")

\* keyword in query.lower()
InQuery(keyword, query) == \E i \in DOMAIN query : keyword \in KeywordsIn(query[i])

\* recommendation.py lines 10-33
detect_intent(query) ==
    IF strip_query(query) = <<>> THEN "general_query"
    ELSE IF \E keyword \in restock_keywords : InQuery(keyword, query) THEN "restock_check"
    ELSE IF InQuery("walmart", query) THEN "gemini_query"
    ELSE IF \E keyword \in suggest_keywords : InQuery(keyword, query) THEN "brand_suggestion"
    ELSE "general_query"

\* RAG.py lines 649-668
detect_rag_intent(query) ==
    IF query = <<>> THEN "not_rag"
    ELSE IF \E keyword \in rag_keywords : InQuery(keyword, query) THEN "rag_query"
    ELSE "not_rag"

\* mutant: the intent of detect_intent is looked at before the RAG intent
route_intent_first(intent, rag_intent) ==
    IF intent = "restock_check" THEN "check_restock_status"
    ELSE IF intent = "gemini_query" THEN "get_gemini_response"
    ELSE IF rag_intent = "rag_query" THEN "rag_product_analysis"
    ELSE IF intent = "brand_suggestion" THEN "get_brand_recommendation"
    ELSE "help"

\* app.py lines 104-126: the branch taken
route(intent, rag_intent) ==
    IF intent = "restock_check" THEN "check_restock_status"
    ELSE IF rag_intent = "rag_query" THEN "rag_product_analysis"
    ELSE IF intent = "gemini_query" THEN "get_gemini_response"
    ELSE IF intent = "brand_suggestion" THEN "get_brand_recommendation"
    ELSE "help"

Response(status, handler, reply) == [status |-> status, handler |-> handler, reply |-> reply]

\* app.py lines 85-135; a user_id that is not a text has no strip and the
\* outer except answers 500.  Of the replies only that of the restock check is
\* worked out here.
chat(request, today) ==
    IF ~request.is_json THEN Response(400, "none", <<>>)
    ELSE IF request.user_id.type # "str" THEN Response(500, "none", <<>>)
    ELSE LET user_id == strip(request.user_id.text)
             query == strip_query(request.query)
         IN  IF user_id = "" \/ query = <<>> THEN Response(400, "none", <<>>)
             ELSE IF app_df = None THEN Response(500, "none", <<>>)
             ELSE LET handler == route(detect_intent(query), detect_rag_intent(query))
                  IN  Response(200, handler,
                               IF handler = "check_restock_status"
                               THEN check_restock_status(Str(user_id), today)
                               ELSE <<>>)

\* the requests posted to /chat
Requests ==
    [is_json : BOOLEAN,
     user_id : {Str("H1"), Str(" H1 "), Str(""), Str("   "), IntArg},
     query : Queries]

\* one request is answered
Chat ==
    /\ last_call = NoCall
    /\ \E request \in Requests, today \in DateTimes :
          last_call' = [kind |-> "chat", request |-> request,
                        response |-> chat(request, today)]
    /\ UNCHANGED <<Our_dataset_csv, consumption_table_csv, predicted_purchases_csv, pc,
                   df, consumption, purchase_patterns, family_sizes, consumptions,
                   runVars, rag_dataset, df_predictions>>

\* app.py lines 20-27 are over: each of the two initialisations has succeeded
\* or failed, over the table of a finished run
InitChat ==
    /\ \E f \in ConsumerFiles, t \in ServiceTables : RunIsOver(f, t)
    /\ run = 1
    /\ first_output = <<>>
    /\ first_input = <<>>
    /\ app_df \in {None, Some("Our_dataset.csv")}
    /\ rag_dataset = None
    /\ df_predictions \in {None, Some(predicted_purchases_csv)}
    /\ last_call = NoCall

NextChat == Chat

SpecChat == InitChat /\ [][NextChat]_vars

\* ---------------------------------------------------------------- properties
\* The input seen from the file, independently of the frames the script builds.
InputKeys == {KeyOf(Our_dataset_csv[i]) : i \in DOMAIN Our_dataset_csv}
InputGroup(k) == {i \in DOMAIN Our_dataset_csv : KeyOf(Our_dataset_csv[i]) = k}
InputDated(k) == {i \in InputGroup(k) : Our_dataset_csv[i].RunDate # NaT}
InputDates(k) == {Our_dataset_csv[i].RunDate[1] : i \in InputDated(k)}
Earliest(S) == CHOOSE x \in S : \A y \in S : x <= y
Latest(S) == CHOOSE x \in S : \A y \in S : x >= y
Aggregated == pc \notin {"read_csv", "sort_values", "agg"}
PatternRows == DOMAIN purchase_patterns

\* C1: every Purchase Pattern row whose purchase_count is 1 has
\* avg_days_between_orders exactly 0: the 0/0 of the division is replaced, the
\* value is neither NaN nor negative.
C1_SinglePurchaseAverageIsZero ==
    \A i \in PatternRows :
        purchase_patterns[i].count = 1
            => purchase_patterns[i].avg_days_between_orders = [num |-> 0, den |-> 1]

C1_Witness ==
    /\ pc = "done"
    /\ \E i \in PatternRows :
          /\ purchase_patterns[i].count = 1
          /\ Cardinality(InputGroup(KeyOf(purchase_patterns[i]))) = 1

\* C2: every Purchase Pattern row with purchase_count > 1 has
\* avg_days_between_orders = (last - first in days) / (purchase_count - 1),
\* first and last being the earliest and latest date of its group in the input,
\* and the value is never negative.
C2_AverageIsSpanOverIntervals ==
    \A i \in PatternRows :
        LET r == purchase_patterns[i]
            D == InputDates(KeyOf(r))
            a == r.avg_days_between_orders
        IN  r.count > 1 =>
                /\ D # {}
                /\ r.min = <<Earliest(D)>>
                /\ r.max = <<Latest(D)>>
                /\ a.den > 0
                /\ a.num * (r.count - 1) = (Latest(D) - Earliest(D)) * a.den
                /\ a.num >= 0

C2_Witness ==
    /\ pc = "done"
    /\ \E i \in PatternRows :
          /\ purchase_patterns[i].count = 3
          /\ purchase_patterns[i].avg_days_between_orders = [num |-> 1, den |-> 2]

\* C3: the aggregate, and the output table once written, hold exactly one row
\* for each distinct (tid, PRODUCT_NAME) key of the input: no key is missing,
\* no key is there twice, and no other key is there.
OneRowPerInputKey(t) ==
    /\ \A k \in InputKeys : Cardinality({i \in DOMAIN t : KeyOf(t[i]) = k}) = 1
    /\ \A i \in DOMAIN t : KeyOf(t[i]) \in InputKeys

C3_OneRowPerKey ==
    /\ Aggregated => OneRowPerInputKey(purchase_patterns)
    /\ pc = "done" => OneRowPerInputKey(predicted_purchases_csv)

C3_Witness ==
    /\ pc = "done"
    /\ Cardinality(InputKeys) = 2
    /\ Len(Our_dataset_csv) = 3
    /\ \E j, k \in InputKeys : j # k /\ j[1] = k[1]

RefHits(p) == {j \in DOMAIN consumption_table_csv : consumption_table_csv[j].Product = p}
InReference(p) == RefHits(p) # {}
FirstHit(p) == CHOOSE j \in RefHits(p) : \A h \in RefHits(p) : j <= h
Estimated == 1..Len(family_sizes)

\* |avg - v| of row r, times the (positive) denominator of avg
Distance(r, v) ==
    LET a == r.avg_days_between_orders
        d == a.num - v * a.den
    IN  IF d < 0 THEN -d ELSE d

\* C5: for a product of the reference table, match_family_size returns
\* (b, ref[b]) where b minimizes |avg_days - ref[b]| over 1,2,3,4,5,6,6+ and
\* is the first bucket of that order attaining the minimum; consumption_days is
\* the interval of that same bucket.
C5_NearestBucketFirstOnTies ==
    \A i \in Estimated :
        LET r == purchase_patterns[i]
        IN  InReference(r.PRODUCT_NAME) =>
              LET ref == consumption_table_csv[FirstHit(r.PRODUCT_NAME)].vals
              IN  \E b \in DOMAIN Buckets :
                     /\ family_sizes[i] = <<Buckets[b]>>
                     /\ consumptions[i] = <<ref[b]>>
                     /\ \A c \in DOMAIN Buckets :
                           /\ Distance(r, ref[b]) <= Distance(r, ref[c])
                           /\ c < b => Distance(r, ref[b]) < Distance(r, ref[c])

\* a tie between two buckets of different intervals, the first of them not
\* being bucket 1, and the first one returned
C5_Witness ==
    /\ Len(family_sizes) = 1
    /\ InReference(purchase_patterns[1].PRODUCT_NAME)
    /\ LET r == purchase_patterns[1]
           ref == consumption_table_csv[FirstHit(r.PRODUCT_NAME)].vals
       IN  \E b, c \in DOMAIN Buckets :
              /\ 1 < b /\ b < c
              /\ ref[b] # ref[c]
              /\ Distance(r, ref[b]) = Distance(r, ref[c])
              /\ \A e \in DOMAIN Buckets : Distance(r, ref[b]) <= Distance(r, ref[e])
              /\ family_sizes[1] = <<Buckets[b]>>
              /\ consumptions[1] = <<ref[b]>>

\* C6: match_family_size returns (None, None) exactly when no reference row
\* has a product name equal, character for character, to the queried name;
\* when there is such a row both a bucket and an interval are returned, also
\* for an average of 0.
C6_NoneIffProductAbsent ==
    \A i \in Estimated :
        IF InReference(purchase_patterns[i].PRODUCT_NAME)
        THEN family_sizes[i] # None /\ consumptions[i] # None
        ELSE family_sizes[i] = None /\ consumptions[i] = None

C6_Witness ==
    /\ InReference("ProductX")
    /\ \E i, j \in Estimated :
          /\ purchase_patterns[i].PRODUCT_NAME = "productx"
          /\ family_sizes[i] = None
          /\ purchase_patterns[j].PRODUCT_NAME = "ProductX"
          /\ purchase_patterns[j].count = 1
          /\ family_sizes[j] # None

\* C7: two rows of one run with the same product name and the same average
\* get the same bucket and the same consumption_days, whatever was estimated
\* between them.
C7_SameInputSameEstimate ==
    \A i, j \in Estimated :
        /\ purchase_patterns[i].PRODUCT_NAME = purchase_patterns[j].PRODUCT_NAME
        /\ purchase_patterns[i].avg_days_between_orders
              = purchase_patterns[j].avg_days_between_orders
        => /\ family_sizes[i] = family_sizes[j]
           /\ consumptions[i] = consumptions[j]

C7_Witness ==
    \E i, j \in Estimated :
        /\ i + 1 < j
        /\ purchase_patterns[i + 1].PRODUCT_NAME # purchase_patterns[i].PRODUCT_NAME
        /\ purchase_patterns[i].PRODUCT_NAME = purchase_patterns[j].PRODUCT_NAME
        /\ purchase_patterns[i].avg_days_between_orders
              = purchase_patterns[j].avg_days_between_orders
        /\ family_sizes[i] # None
        /\ family_sizes[j] = family_sizes[i]

ForecastRows == DOMAIN predicted_purchases_csv

\* C8: in the written table, every record whose product is in the reference
\* table has predicted_next_date = last_purchase + consumption_days days,
\* last_purchase being the latest date of its group in the input (a group
\* without any date has neither date).
C8_PredictedIsLastPlusConsumption ==
    pc = "done" =>
        \A i \in ForecastRows :
            LET r == predicted_purchases_csv[i]
                D == InputDates(KeyOf(r))
            IN  InReference(r.PRODUCT_NAME) =>
                  /\ r.consumption_days # None
                  /\ IF D = {}
                     THEN r.last_purchase = NaT /\ r.predicted_next_date = NaT
                     ELSE /\ r.last_purchase = <<Latest(D)>>
                          /\ r.predicted_next_date = <<Latest(D) + r.consumption_days[1]>>

C8_Witness ==
    /\ pc = "done"
    /\ \E i \in ForecastRows :
          LET r == predicted_purchases_csv[i]
          IN  /\ InReference(r.PRODUCT_NAME)
              /\ Cardinality(InputDates(KeyOf(r))) = 2
              /\ r.consumption_days # None
              /\ r.consumption_days[1] > 0
              /\ r.predicted_next_date = <<r.last_purchase[1] + r.consumption_days[1]>>

\* C9: a Purchase Pattern row whose product is not in the reference table does
\* not make the script fail, and its record in the written table has
\* predicted_next_date equal to last_purchase, the latest date of its group.
C9_UnmatchedCollapsesToLastPurchase ==
    /\ \A i \in PatternRows :
          ~InReference(purchase_patterns[i].PRODUCT_NAME) => pc # "error"
    /\ pc = "done" =>
          \A k \in InputKeys :
              ~InReference(k[2]) =>
                 \E i \in ForecastRows :
                    LET r == predicted_purchases_csv[i]
                        D == InputDates(k)
                    IN  /\ KeyOf(r) = k
                        /\ r.last_purchase = (IF D = {} THEN NaT ELSE <<Latest(D)>>)
                        /\ r.predicted_next_date = r.last_purchase

C9_Witness ==
    /\ pc = "done"
    /\ \E i \in ForecastRows :
          LET r == predicted_purchases_csv[i]
          IN  /\ ~InReference(r.PRODUCT_NAME)
              /\ r.last_purchase # NaT
              /\ r.predicted_next_date = r.last_purchase

\* C10 (as claimed): the written record of a pair whose product is absent
\* from the reference table has consumption_days = 0 and no estimated size.
C10_UnmatchedConsumptionIsZero ==
    pc = "done" =>
        \A i \in ForecastRows :
            LET r == predicted_purchases_csv[i]
            IN  ~InReference(r.PRODUCT_NAME) =>
                  /\ r.consumption_days = <<0>>
                  /\ r.estimated_family_size = None

\* C10 (amended): the written record of a pair whose product is absent from
\* the reference table has no consumption_days (the field is null, not 0) and
\* no estimated size; the missing interval counts as 0 days only in the date
\* arithmetic, so that predicted_next_date is last_purchase.
C10_UnmatchedConsumptionIsNull ==
    pc = "done" =>
        \A i \in ForecastRows :
            LET r == predicted_purchases_csv[i]
            IN  ~InReference(r.PRODUCT_NAME) =>
                  /\ r.consumption_days = None
                  /\ r.estimated_family_size = None
                  /\ r.predicted_next_date = r.last_purchase

C10_Witness ==
    /\ pc = "done"
    /\ consumption_table_csv # <<>>
    /\ \E i \in ForecastRows :
          /\ ~InReference(predicted_purchases_csv[i].PRODUCT_NAME)
          /\ predicted_purchases_csv[i].consumption_days = None

\* C11: forecaster totality.  Once the forecast is computed it has as many
\* rows as the aggregator produced Purchase Pattern rows (one estimate was made
\* per pattern row), the i-th forecast row is the i-th pattern row with its own
\* estimate, and the written table holds these rows and no other.
Forecasted == pc \in {"to_csv", "writing", "done"}

C11_OneForecastPerPattern ==
    /\ Forecasted =>
          /\ Len(purchase_patterns) = Len(family_sizes)
          /\ \A i \in PatternRows :
                /\ purchase_patterns[i].estimated_family_size = family_sizes[i]
                /\ purchase_patterns[i].consumption_days = consumptions[i]
                /\ \A j \in PatternRows :
                      KeyOf(purchase_patterns[i]) = KeyOf(purchase_patterns[j]) => i = j
    /\ pc = "done" =>
          /\ Len(predicted_purchases_csv) = Len(family_sizes)
          /\ \A i \in ForecastRows :
                /\ KeyOf(predicted_purchases_csv[i]) = KeyOf(purchase_patterns[i])
                /\ predicted_purchases_csv[i].consumption_days = consumptions[i]

C11_Witness ==
    /\ pc = "done"
    /\ Len(predicted_purchases_csv) = 3
    /\ \E i, j, k \in ForecastRows :
          /\ predicted_purchases_csv[i].last_purchase = NaT
          /\ ~InReference(predicted_purchases_csv[j].PRODUCT_NAME)
          /\ InReference(predicted_purchases_csv[k].PRODUCT_NAME)
          /\ purchase_patterns[k].count = 1

\* C12 (as claimed): every record of the written table has
\* predicted_next_date >= last_purchase, whatever the reference table is.
C12_PredictedNotBeforeLast ==
    pc = "done" =>
        \A i \in ForecastRows :
            LET r == predicted_purchases_csv[i]
            IN  r.last_purchase # NaT =>
                  /\ r.predicted_next_date # NaT
                  /\ r.predicted_next_date[1] >= r.last_purchase[1]

\* The last query, when it was a get_restock_list answered from a loaded table
\* for a user_id that is a text naming a household.
HouseholdOf(u) == IF u.text = " H1 " THEN "H1" ELSE u.text
Answered ==
    /\ last_call.kind = "get_restock_list"
    /\ last_call.frame # None
    /\ last_call.user_id.type = "str"
    /\ HouseholdOf(last_call.user_id) \in {"H1", "H2", "H3"}
    /\ last_call.reference_date # NotADatetime
AskedTable == last_call.frame[1]
AskedRows == {i \in DOMAIN AskedTable : AskedTable[i].tid = HouseholdOf(last_call.user_id)}
AskedDate == last_call.reference_date[1]
\* the records of the household that are due: predicted at 00:00 of a day that
\* is not after the reference datetime
DueRows ==
    {i \in AskedRows :
        /\ AskedTable[i].predicted_next_date # NaT
        /\ 2 * AskedTable[i].predicted_next_date[1] <= AskedDate}
Items == last_call.result
\* the record an item reports: the one of the household with its product
RowOfItem(k) == CHOOSE i \in AskedRows : AskedTable[i].PRODUCT_NAME = Items[k].product_name

\* C13: get_restock_list with a supplied reference date returns exactly one
\* item for each record of the household whose predicted_next_date is not
\* after the reference date, and no other item: none of another household,
\* none predicted later, none without a predicted date.
C13_ExactlyTheDueRecords ==
    Answered =>
        /\ Len(Items) = Cardinality(DueRows)
        /\ \A i \in DueRows :
              Cardinality({k \in DOMAIN Items :
                              /\ Items[k].product_name = AskedTable[i].PRODUCT_NAME
                              /\ Items[k].predicted_date
                                    = strftime(AskedTable[i].predicted_next_date[1])}) = 1
        /\ \A k \in DOMAIN Items :
              \E i \in DueRows : Items[k].product_name = AskedTable[i].PRODUCT_NAME

C13_Witness ==
    /\ Answered
    /\ Len(Items) = 1
    /\ Cardinality(AskedRows) = 2
    /\ \E i \in DueRows : 2 * AskedTable[i].predicted_next_date[1] = AskedDate
    /\ \E i \in AskedRows : 
          /\ AskedTable[i].predicted_next_date # NaT
          /\ 2 * AskedTable[i].predicted_next_date[1] > AskedDate
    /\ \E i \in DOMAIN AskedTable :
          /\ i \notin AskedRows
          /\ AskedTable[i].predicted_next_date # NaT
          /\ 2 * AskedTable[i].predicted_next_date[1] <= AskedDate

\* C14: the returned list is in ascending order of predicted_next_date: of two
\* consecutive items the first one's record is not predicted later than the
\* second one's.
C14_SortedByPredictedDate ==
    Answered =>
        \A k \in 1..(Len(Items) - 1) :
            AskedTable[RowOfItem(k)].predicted_next_date[1]
                <= AskedTable[RowOfItem(k + 1)].predicted_next_date[1]

\* two items in the order opposite to that of the table, one of each year
C14_Witness ==
    /\ Answered
    /\ Len(Items) = 2
    /\ RowOfItem(1) > RowOfItem(2)
    /\ Items[1].predicted_date[4] # Items[2].predicted_date[4]

C16_UnknownHouseholdGetsEmptyList ==
    Answered /\ AskedRows = {} => Items = <<>>

C16_Witness ==
    /\ Answered
    /\ last_call.user_id.text = "H3"
    /\ Items = <<>>
    /\ \E i \in DOMAIN AskedTable :
          /\ AskedTable[i].predicted_next_date # NaT
          /\ 2 * AskedTable[i].predicted_next_date[1] <= AskedDate

\* C20 (as claimed): the service does not read the clock, so the same user
\* asking check_restock_status again over the same table gets the same reply
\* whatever the time is.
C20_SameReplyAtAnyTime ==
    last_call.kind = "check_restock_status again" => last_call.same_reply


\* The input of the current run is malformed: a required column is missing or
\* a transaction date is not a date.
Malformed ==
    \/ Our_dataset_columns # RequiredColumns
    \/ \E i \in DOMAIN Our_dataset_csv : Our_dataset_csv[i].RunDate = BadDate
\* the complete tables there are during a run: the one the previous run left
\* (none before the first run) and the one this run is to leave
CompleteTables ==
    {first_output} \cup
    (IF Malformed THEN {} ELSE {FinalTable(Our_dataset_csv, consumption_table_csv)})
\* the frames a reader gets from a complete table
CompleteReads ==
    {IF t = <<>> THEN None ELSE Some(AsRead(t)) : t \in CompleteTables}

\* C17 (as claimed): whenever a consumer reads the output table, a run being
\* under way or not, it gets the complete table of the previous run or the
\* complete table of the new run, never less.
C17_ReaderSeesACompleteTable ==
    rag_dataset # None => rag_dataset[1] \in CompleteReads

\* C18: a run over a file with a transaction date that is not a date, or
\* without one of the columns tid, PRODUCT_NAME and RunDate, never reaches the
\* write of line 50, and the output file stays as the run found it.
C18_MalformedInputWritesNothing ==
    Malformed =>
        /\ pc \notin {"to_csv", "writing", "done"}
        /\ predicted_purchases_csv = first_output

\* a second run stopped by a date that is not a date, the table of the first
\* run still in place
C18_Witness ==
    /\ run = 2
    /\ pc = "error"
    /\ Our_dataset_columns = RequiredColumns
    /\ \E i \in DOMAIN Our_dataset_csv : Our_dataset_csv[i].RunDate = BadDate
    /\ purchase_patterns = <<>>
    /\ Len(first_output) = 2
    /\ predicted_purchases_csv = first_output

\* C19: a second run over the files of the first run leaves the output table
\* the first run left, row for row.
C19_SecondRunSameTable ==
    (/\ run = 2
     /\ pc = "done"
     /\ first_input = <<Our_dataset_csv, Our_dataset_columns, consumption_table_csv>>)
        => predicted_purchases_csv = first_output

C19_Witness ==
    /\ run = 2
    /\ pc = "done"
    /\ first_input = <<Our_dataset_csv, Our_dataset_columns, consumption_table_csv>>
    /\ Len(predicted_purchases_csv) = 2
    /\ predicted_purchases_csv = first_output
    /\ \E i \in DOMAIN predicted_purchases_csv :
          predicted_purchases_csv[i].predicted_next_date # NaT



\* C21 (as claimed): no analysis of the chatbot reports a product whose record
\* has avg_days_between_orders = 0 (bought once) as very frequent or as of
\* high consumption.
C21_ZeroAverageIsNotVeryFrequent ==
    /\ (/\ last_call.kind = "calculate_product_usage"
        /\ last_call.result.source = "predicted_purchases.csv"
        /\ last_call.result.avg_days_between_orders = Float(0))
          => /\ last_call.result.consumption_level # "High"
             /\ last_call.result.frequency # "Very frequent"
    /\ last_call.kind = "get_most_purchased_products"
          => \A i \in DOMAIN last_call.reply :
                last_call.result.products[i].avg_days_between_orders = Float(0)
                    => last_call.reply[i].frequency # "Very frequent"

\* A record without a usable forecast: the product was not matched or the
\* interval is 0, and the predicted date is the date of the last purchase.
NoUsableForecast(r) ==
    /\ r.consumption_days = None \/ r.consumption_days = Some(0)
    /\ r.predicted_next_date = r.last_purchase
\* a record with a forecast that is predicted for the same day: bought a day
\* earlier, with an interval of one day
WithForecast(r) ==
    [r EXCEPT !.consumption_days = Some(1),
              !.estimated_family_size = Some("1"),
              !.last_purchase = Some(r.predicted_next_date[1] - 1)]

\* C22 (as claimed): an item that get_restock_list returns for a record
\* without a usable forecast can be told from the item of a record with a
\* forecast, unless the record is left out of the list.
C22_NoUsableForecastIsRecognized ==
    Answered =>
        \A k \in DOMAIN Items :
            NoUsableForecast(AskedTable[RowOfItem(k)])
                => Items[k] # RestockItem(WithForecast(AskedTable[RowOfItem(k)]), AskedDate)

\* C23: when a run is over the output table holds the records derived from
\* the input of that run and nothing else: a record of the previous table whose
\* pair is not in the new input is gone, and every record is the one computed
\* in this run, whatever the previous table gave for its pair.
C23_RunReplacesTheTable ==
    pc = "done" =>
        /\ predicted_purchases_csv = FinalTable(Our_dataset_csv, consumption_table_csv)
        /\ \A i \in DOMAIN predicted_purchases_csv :
              KeyOf(predicted_purchases_csv[i]) \in InputKeys
        /\ \A i \in DOMAIN first_output :
              KeyOf(first_output[i]) \notin InputKeys
                  => \A j \in DOMAIN predicted_purchases_csv :
                        predicted_purchases_csv[j] # first_output[i]

\* a second run over another file: a record of the first table is gone and
\* another one has a new predicted date
C23_Witness ==
    /\ run = 2
    /\ pc = "done"
    /\ \E i \in DOMAIN first_output : KeyOf(first_output[i]) \notin InputKeys
    /\ \E i \in DOMAIN first_output, j \in DOMAIN predicted_purchases_csv :
          /\ KeyOf(first_output[i]) = KeyOf(predicted_purchases_csv[j])
          /\ first_output[i].predicted_next_date # predicted_purchases_csv[j].predicted_next_date


\* the forecast record of the scenario: day 22 is 2022-01-21, day 32 is
\* 2022-01-31
ScenarioRecord ==
    [tid |-> "H1", PRODUCT_NAME |-> "ProductX",
     estimated_family_size |-> Some("2"),
     avg_days_between_orders |-> [num |-> 10, den |-> 1],
     consumption_days |-> Some(10),
     last_purchase |-> Some(22),
     predicted_next_date |-> Some(32)]

\* C24: over the three purchases of the scenario the run writes one record,
\* with the average interval 10, the family size '2', the consumption interval
\* 10 and the predicted date 2022-01-31; get_restock_list('H1', 2022-02-01)
\* over that table returns the one item (ProductX, '2022-01-31', 1 day overdue).
C24_Scenario ==
    /\ pc = "done" => predicted_purchases_csv = <<ScenarioRecord>>
    /\ (/\ last_call.kind = "get_restock_list"
        /\ last_call.frame = Some(<<ScenarioRecord>>)
        /\ last_call.user_id = Str("H1")
        /\ last_call.reference_date = Some(66))
          => last_call.result = << [product_name |-> "ProductX",
                                    predicted_date |-> <<2, 0, 2, 2, 0, 1, 3, 1>>,
                                    days_overdue |-> 1] >>

C24_Witness ==
    /\ pc = "done"
    /\ predicted_purchases_csv = <<ScenarioRecord>>
    /\ last_call.kind = "get_restock_list"
    /\ last_call.frame = Some(predicted_purchases_csv)
    /\ last_call.user_id = Str("H1")
    /\ last_call.reference_date = Some(66)
    /\ Len(last_call.result) = 1


\* how many times the record r stands in the sequence s
RecordCount(s, r) == Cardinality({i \in DOMAIN s : s[i] = r})
SameRecords(a, b) ==
    /\ Len(a) = Len(b)
    /\ \A i \in DOMAIN a : RecordCount(a, a[i]) = RecordCount(b, a[i])

\* C25: no step of a run (a step that is not the start of another run)
\* changes the transactions file or the reference table file, and once they
\* are loaded the frames in memory hold the records and the reference rows of
\* the files: none added, removed or modified.
C25_RunLeavesTheInputAlone ==
    [][run' = run =>
          /\ Our_dataset_csv' = Our_dataset_csv
          /\ consumption_table_csv' = consumption_table_csv
          /\ pc' \notin {"read_csv", "error"} =>
                /\ consumption' = consumption_table_csv
                /\ SameRecords(df', Our_dataset_csv)]_vars

\* a finished run over a file with an undated record and a repeated one, in
\* another order than the sorted frame
C25_Witness ==
    /\ pc = "done"
    /\ predicted_purchases_csv # <<>>
    /\ consumption_table_csv # <<>>
    /\ df # Our_dataset_csv
    /\ \E i \in DOMAIN Our_dataset_csv : Our_dataset_csv[i].RunDate = NaT
    /\ \E i, j \in DOMAIN Our_dataset_csv : i # j /\ Our_dataset_csv[i] = Our_dataset_csv[j]


\* C26: get_restock_list always returns: the empty list when no table is
\* loaded, when user_id is None, not a text, empty or blank, and when an error
\* occurs inside it (a reference date that is not a datetime); and
\* check_restock_status always answers with a text.
C26_NeverRaises ==
    /\ last_call.kind = "get_restock_list" =>
          /\ ~last_call.raised
          /\ (\/ last_call.frame = None
              \/ last_call.user_id.type # "str"
              \/ last_call.user_id.text \in {"", "   "}
              \/ last_call.reference_date = NotADatetime) => last_call.result = <<>>
    /\ last_call.kind \in {"check_restock_status", "check_restock_status again"} =>
          /\ last_call.result # <<>>
          /\ last_call.result[1].line \in {"no restock needed", "due since", "due on"}

\* the comparison with the records of the household raised, and the caller
\* got the empty list
C26_Witness ==
    /\ last_call.kind = "get_restock_list"
    /\ last_call.frame # None
    /\ last_call.user_id = Str("H1")
    /\ \E i \in DOMAIN last_call.frame[1] :
          /\ last_call.frame[1][i].tid = "H1"
          /\ last_call.frame[1][i].predicted_next_date # NaT
    /\ last_call.reference_date = NotADatetime
    /\ ~last_call.raised
    /\ last_call.result = <<>>


\* the records of H1 in the table t that are due at the datetime ref
DueIn(t, ref) ==
    {i \in DOMAIN t : /\ t[i].tid = "H1"
                      /\ t[i].predicted_next_date # NaT
                      /\ 2 * t[i].predicted_next_date[1] <= ref}

\* C27: once loaded, the frame of the service changes with no step of the
\* script and no query, and every restock list is the answer over that frame,
\* whatever the output file holds by then; a read of the chatbot gives what
\* the file holds at the time of the read.
C27_ServiceAnswersFromTheLoadedTable ==
    [][/\ df_predictions # None => df_predictions' = df_predictions
       /\ (last_call' # last_call /\ df_predictions # None) =>
             /\ Len(last_call'.result)
                   = Cardinality(DueIn(df_predictions[1], last_call'.reference_date[1]))
             /\ \A k \in DOMAIN last_call'.result :
                   \E i \in DueIn(df_predictions[1], last_call'.reference_date[1]) :
                      /\ df_predictions[1][i].PRODUCT_NAME = last_call'.result[k].product_name
                      /\ strftime(df_predictions[1][i].predicted_next_date[1])
                            = last_call'.result[k].predicted_date
       /\ rag_dataset' # rag_dataset =>
             \/ rag_dataset' = Some(None) /\ predicted_purchases_csv = <<>>
             \/ rag_dataset' = Some(Some(AsRead(predicted_purchases_csv)))]_vars

\* after the second run the service has answered from the table of the first
\* run, with another list than the new table gives, and the chatbot has read
\* the new table
C27_Witness ==
    /\ run = 2
    /\ pc = "done"
    /\ predicted_purchases_csv # first_output
    /\ df_predictions = Some(first_output)
    /\ last_call.kind = "get_restock_list"
    /\ last_call.frame = df_predictions
    /\ Len(last_call.result)
          # Cardinality(DueIn(predicted_purchases_csv, last_call.reference_date[1]))
    /\ rag_dataset = Some(Some(AsRead(predicted_purchases_csv)))


\* The last request, read word by word.
ChatRequest == last_call.request
WellFormedRequest ==
    /\ ChatRequest.is_json
    /\ ChatRequest.user_id.type = "str"
EmptyRequest ==
    \/ ChatRequest.user_id.text \in {"", "   "}
    \/ \A i \in DOMAIN ChatRequest.query : ChatRequest.query[i] = ""
Says(words) == \E i \in DOMAIN ChatRequest.query : ChatRequest.query[i] \in words
\* the handler the priority restock > RAG > 'walmart' > suggestion > help gives
HandlerByPriority ==
    IF Says({"restock", "Restocking"}) THEN "check_restock_status"
    ELSE IF Says({"purchased", "too much"}) THEN "rag_product_analysis"
    ELSE IF Says({"walmart", "WALMART"}) THEN "get_gemini_response"
    ELSE IF Says({"suggest"}) THEN "get_brand_recommendation"
    ELSE "help"

\* C28 (as claimed): every request with a user_id and a query that are not
\* blank is answered by the one handler the priority gives, and a request with
\* a blank user_id or query is answered 400 by no handler.
C28_EveryValidRequestIsRouted ==
    (last_call.kind = "chat" /\ WellFormedRequest) =>
        IF EmptyRequest
        THEN last_call.response.status = 400 /\ last_call.response.handler = "none"
        ELSE last_call.response.status = 200
             /\ last_call.response.handler = HandlerByPriority

\* C28 (amended): as above when the dataset of the application is loaded;
\* while it is not, a request that is not blank is answered 500 by no handler.
C28_RoutedWhenTheDatasetIsLoaded ==
    (last_call.kind = "chat" /\ WellFormedRequest) =>
        IF EmptyRequest
        THEN last_call.response.status = 400 /\ last_call.response.handler = "none"
        ELSE IF app_df = None
        THEN last_call.response.status = 500 /\ last_call.response.handler = "none"
        ELSE last_call.response.status = 200
             /\ last_call.response.handler = HandlerByPriority

\* a query with 'walmart' and a RAG keyword went to the RAG analysis
C28_Witness ==
    /\ last_call.kind = "chat"
    /\ WellFormedRequest
    /\ ~EmptyRequest
    /\ app_df # None
    /\ Says({"WALMART"})
    /\ Says({"too much"})
    /\ last_call.response.handler = "rag_product_analysis"


====
